---- MODULE Spec2Model ----
(***************************************************************************)
(* Model of stix/module/orm/export_utilities.py: the decoding of a TypeDB   *)
(* query answer into the intermediate nested structure.                    *)
(*                                                                         *)
(* The graph seen through the read transaction r_tx is the state: the type *)
(* label of every thing, the attributes each thing owns, and the players   *)
(* of each relation by role.  Python dicts are TLA+ records (a key that    *)
(* the code sets only on some paths is a field that is present only on     *)
(* those paths), Python lists are sequences, Python strings that the code  *)
(* edits are sequences of characters.  A call either returns a value,      *)
(* [val |-> v], or raises, [exc |-> name].                                 *)
(***************************************************************************)
EXTENDS Integers, Sequences, FiniteSets, TLC

VARIABLES
    label,      \* thing -> thing.get_type().get_label().name()
    has,        \* thing -> the attributes the thing owns, in get_has() order
    players,    \* relation -> get_players_by_role_type(): <<role, players>> pairs
    op,         \* the function called last
    arg,        \* its argument
    res         \* what it returned or raised

vars == <<label, has, players, op, arg, res>>

-----------------------------------------------------------------------------
(* Bounds *)

\* frames the interpreter allows before it raises RecursionError (1000 in
\* CPython): any limit above the 10 frames of the deepest traversal of the
\* model's graphs that ends gives the same results
RecursionLimit == 11
\* rows of a query answer
MaxRows == 2
\* characters of a string attribute value
MaxLen == 4

-----------------------------------------------------------------------------
(* The things of the graph *)

Entities == {"e1", "e2"}
Attributes == {"a1"}
Relations == {"r1", "r2"}
Things == Entities \cup Attributes \cup Relations

is_entity(thing) == thing \in Entities
is_relation(thing) == thing \in Relations
is_attribute(thing) == thing \in Attributes

get_iid(thing) ==
    CASE thing = "e1" -> "0x826e80018000000000000001"
      [] thing = "e2" -> "0x826e80018000000000000002"
      [] thing = "a1" -> "0x836f80018000000000000001"
      [] thing = "r1" -> "0x847080018000000000000001"
      [] thing = "r2" -> "0x847080018000000000000002"

get_label(thing) == label[thing]

BS == "\\"

\* an attribute concept: its type label, its value type and its value
Attr(l, t, v) == [label |-> l, vtype |-> t, value |-> v]

\* the attribute a1, seen as a role player: its value and value type
AttrThing == [a1 |-> Attr("header-value", "string", <<"v", BS, BS, "w">>)]

is_datetime(a) == a.vtype = "datetime"
is_string(a) == a.vtype = "string"
get_value(a) == a.value

\* thing.as_remote(r_tx).get_has()
get_has(thing) == has[thing]

RECURSIVE SelectAttr(_, _)
SelectAttr(s, l) ==
    IF s = <<>> THEN <<>>
    ELSE IF s[1].label = l THEN <<s[1]>> \o SelectAttr(Tail(s), l)
    ELSE SelectAttr(Tail(s), l)

\* thing.as_remote(r_tx).get_has(attribute_type=...)
get_has_of_type(thing, l) == SelectAttr(has[thing], l)

\* r.as_remote(r_tx).get_players_by_role_type(): pairs <<role name, players>>
get_players_by_role_type(r) == players[r]

plays_in(thing, r) ==
    \E i \in DOMAIN players[r] :
        \E j \in DOMAIN players[r][i][2] : players[r][i][2][j] = thing

\* thing.as_remote(r_tx).get_relations(): the relations the thing plays a role in
get_relations(thing) ==
    (IF plays_in(thing, "r1") THEN <<"r1">> ELSE <<>>)
    \o (IF plays_in(thing, "r2") THEN <<"r2">> ELSE <<>>)

-----------------------------------------------------------------------------
(* Returned values and raised exceptions *)

Val(v) == [val |-> v]
Exc(e) == [exc |-> e]
IsExc(x) == "exc" \in DOMAIN x

RECURSIVE FirstExcIdx(_, _)
FirstExcIdx(s, i) ==
    IF i > Len(s) THEN 0
    ELSE IF IsExc(s[i]) THEN i
    ELSE FirstExcIdx(s, i + 1)

\* a loop whose body may raise: the first exception ends it, otherwise the
\* values the iterations produced, in order
Collect(s) ==
    LET k == FirstExcIdx(s, 1)
    IN  IF k > 0 THEN s[k] ELSE Val([i \in DOMAIN s |-> s[i].val])

\* list.append of the items that are there: the None entries are skipped
RECURSIVE Compact(_)
Compact(s) ==
    IF s = <<>> THEN <<>>
    ELSE IF s[1] = <<>> THEN Compact(Tail(s))
    ELSE <<s[1][1]>> \o Compact(Tail(s))

-----------------------------------------------------------------------------
(* The authorisation table, authorised_mappings(import_type) *)

auth ==
    [reln_name |->
        [embedded_relations |-> {"created-by", "derived-from", "object-marking"},
         standard_relations |-> {"uses", "derived-from"},
         key_value_relations |-> {"additional-header"},
         extension_relations |-> {"archive-extension", "pdf-extension",
                                  "ntfs-extension"},
         list_of_objects |-> {"x509-extensions"}],
     reln |->
        [embedded_relations |->
            << [typeql |-> "created-by", owner |-> "owner"],
               [typeql |-> "derived-from", owner |-> "owner"] >>,
         key_value_relations |->
            << [typeql |-> "additional-header", owner |-> "owner"] >>,
         extension_relations |->
            << [relation |-> "archive-extension", object |-> "archive-ext",
                owner |-> "owner"],
               [relation |-> "ntfs-extension", object |-> "ntfs-ext",
                owner |-> "owner"] >>,
         list_of_objects |->
            << [typeql |-> "x509-extensions", object |-> "archive-ext",
                owner |-> "owner", pointed_to |-> "pointed-to",
                name |-> "x509_v3_extensions"] >>],
     sub_objects |-> {"archive-ext", "ntfs-ext"}]

\* auth["tql_types"]: the STIX type names of each category of object
tql_types ==
    [sdo |-> {"identity", "attack-pattern", "campaign"},
     sco |-> {"file", "process"},
     sro |-> {"relationship", "sighting"},
     sub |-> {"email-mime-part"},
     meta |-> {"marking-definition"}]

\* auth["conv"]: the conversion records of each category
conv ==
    [sdo |-> << [typeql |-> "identity", class |-> "Identity"],
                [typeql |-> "attack-pattern", class |-> "AttackPattern"],
                [typeql |-> "technique", class |-> "Technique"] >>,
     sco |-> << [typeql |-> "file", class |-> "File"] >>,
     sro |-> << [typeql |-> "stix-core-relationship", class |-> "Relationship"],
                [typeql |-> "sighting", class |-> "Sighting"],
                [typeql |-> "attack-relation", class |-> "AttackRelation"] >>,
     sub |-> << [typeql |-> "email-mime-part", class |-> "EmailMIMEComponent"] >>,
     meta |-> << [typeql |-> "attack-marking", class |-> "AttackMarking"] >>]

\* auth["classes"]: the names of the classes registered in each category
classes ==
    [sdo |-> {"Identity", "AttackPattern", "Technique"},
     sco |-> {"File"},
     sro |-> {"Relationship", "Sighting", "AttackRelation"},
     sub |-> {"EmailMIMEComponent"},
     meta |-> {"AttackMarking"}]

\* the relation type names the graph uses
RelationNames ==
    {"created-by", "derived-from", "object-marking", "uses", "sighting",
     "additional-header", "archive-extension", "pdf-extension",
     "ntfs-extension", "x509-extensions", "granular-marking", "hashes", "file_header_hashes",
     "delivers"}

EntityNames == {"archive-ext", "file"}

\* for x in table: if x[key] == name: v = x[field]  -- the last match is kept;
\* <<>> when no entry matched (the variable stays unbound)
RECURSIVE LastMatch(_, _, _, _)
LastMatch(table, key, name, field) ==
    IF table = <<>> THEN <<>>
    ELSE LET rest == LastMatch(Tail(table), key, name, field)
         IN  IF rest # <<>> THEN rest
             ELSE IF table[1][key] = name THEN <<table[1][field]>>
             ELSE <<>>

-----------------------------------------------------------------------------
(* Attribute values *)

\* str.replace("\\\\", "\\"): left to right, without overlap
RECURSIVE str_replace(_)
str_replace(s) ==
    IF Len(s) < 2 THEN s
    ELSE IF s[1] = BS /\ s[2] = BS
         THEN <<BS>> \o str_replace(SubSeq(s, 3, Len(s)))
         ELSE <<s[1]>> \o str_replace(Tail(s))

\* a datetime is a wall-clock minute of a day and an offset from UTC in minutes
astimezone_utc(d) ==
    LET m == d.minute - d.utcoffset
    IN  [day |-> d.day + (m \div 1440), minute |-> m % 1440, utcoffset |-> 0]

\* strftime("%Y-%m-%dT%H:%M:%S.%fZ"): the fields of the text
strftime(d) ==
    [date |-> d.day, hour |-> d.minute \div 60, min |-> d.minute % 60,
     fraction_digits |-> 6, suffix |-> "Z"]

\* the string branch without the collapse of the escape pair
process_prop_uncollapsed(a) ==
    IF is_datetime(a)
    THEN [typeql |-> a.label, value |-> strftime(astimezone_utc(get_value(a))),
          datetime |-> TRUE]
    ELSE [typeql |-> a.label, value |-> get_value(a), datetime |-> FALSE]

process_prop(a) ==
    IF is_datetime(a)
    THEN [typeql |-> a.label, value |-> strftime(astimezone_utc(get_value(a))),
          datetime |-> TRUE]
    ELSE IF is_string(a)
    THEN [typeql |-> a.label, value |-> str_replace(get_value(a)),
          datetime |-> FALSE]
    ELSE [typeql |-> a.label, value |-> get_value(a), datetime |-> FALSE]

process_props(props_obj) ==
    [i \in DOMAIN props_obj |-> process_prop(props_obj[i])]

process_value(p) ==
    IF is_datetime(p) THEN strftime(astimezone_utc(get_value(p)))
    ELSE get_value(p)

\* for attr in attrs: play[key] = attr.get_value()  -- the last value is kept
SetLast(play, key, attrs) ==
    IF attrs = <<>> THEN play
    ELSE (key :> get_value(attrs[Len(attrs)])) @@ play

process_entity(thing) ==
    SetLast([type |-> "entity", tql |-> get_label(thing)], "stix_id",
            get_has_of_type(thing, "stix-id"))

process_relation(p) ==
    SetLast([type |-> "attribute", tql |-> get_label(p)], "stix_id",
            get_has_of_type(p, "stix-id"))

-----------------------------------------------------------------------------
(* Role/player unpacking *)

\* one role of a relation map: the role name and the players the loop kept
Role(name, plays) == [role |-> name, player |-> plays]

attribute_play(p, is_kv) ==
    LET play == [type |-> "attribute", tql |-> get_label(p),
                 value |-> process_value(AttrThing[p])]
    IN  IF is_kv THEN ("props" :> process_props(get_has(p))) @@ play ELSE play

entity_attribute_player(p, is_kv) ==
    IF is_entity(p) THEN <<process_entity(p)>>
    ELSE IF is_attribute(p) THEN <<attribute_play(p, is_kv)>>
    ELSE <<>>

reln_map_entity_attribute(reln_map, is_kv) ==
    [i \in DOMAIN reln_map |->
        Role(reln_map[i][1],
             Compact([j \in DOMAIN reln_map[i][2] |->
                        entity_attribute_player(reln_map[i][2][j], is_kv)]))]

\* the relation branch lost: a relation player is skipped
entity_relation_player_entities_only(p) ==
    IF is_entity(p) THEN <<process_entity(p)>> ELSE <<>>

entity_relation_player(p) ==
    IF is_entity(p) THEN <<process_entity(p)>>
    ELSE IF is_relation(p) THEN <<process_relation(p)>>
    ELSE <<>>

reln_map_entity_relation(reln_map) ==
    [i \in DOMAIN reln_map |->
        Role(reln_map[i][1],
             Compact([j \in DOMAIN reln_map[i][2] |->
                        entity_relation_player(reln_map[i][2][j])]))]

get_granular_marking(r) ==
    reln_map_entity_attribute(get_players_by_role_type(r), FALSE)

get_key_value_relations(r) ==
    reln_map_entity_attribute(get_players_by_role_type(r), TRUE)

get_embedded_relations(r) ==
    reln_map_entity_relation(get_players_by_role_type(r))

\* the standard handler unpacking the players as the embedded one does
get_standard_relations_unpacked(r) ==
    reln_map_entity_relation(get_players_by_role_type(r))

get_standard_relations(r) == <<>>

\* the owner test lost: every entity player is given its external id
hashes_player_all_ids(role_name, p) ==
    IF is_entity(p)
    THEN <<SetLast([type |-> "entity", tql |-> get_label(p)], "stix_id",
                   get_has_of_type(p, "stix-id"))>>
    ELSE <<>>

hashes_player(role_name, p) ==
    IF is_entity(p)
    THEN LET play == [type |-> "entity", tql |-> get_label(p)]
         IN  IF role_name = "owner"
             THEN <<SetLast(play, "stix_id", get_has_of_type(p, "stix-id"))>>
             ELSE <<SetLast(play, "hash_value",
                            get_has_of_type(p, "hash-value"))>>
    ELSE <<>>

get_hashes(r) ==
    LET reln_map == get_players_by_role_type(r)
    IN  [i \in DOMAIN reln_map |->
            Role(reln_map[i][1],
                 Compact([j \in DOMAIN reln_map[i][2] |->
                            hashes_player(reln_map[i][1], reln_map[i][2][j])]))]

\* the nested relation record get_list_of_objects builds for an expanded player
list_of_objects_reln(rel) ==
    [T_name |-> get_label(rel), T_id |-> get_iid(rel),
     roles |-> reln_map_entity_relation(get_players_by_role_type(rel))]

list_of_objects_player(p) ==
    IF is_entity(p)
    THEN LET reln_types == get_relations(p)
         IN  << [type |-> "entity", tql |-> get_label(p),
                 has |-> process_props(get_has(p)),
                 relns |-> [k \in DOMAIN reln_types |->
                              list_of_objects_reln(reln_types[k])]] >>
    ELSE <<>>

get_list_of_objects(r) ==
    LET reln_name == get_label(r)
        table == auth.reln.list_of_objects
        reln_map == get_players_by_role_type(r)
    IN  IF \E i \in DOMAIN table :
              table[i].typeql = reln_name
              /\ table[i].object \notin auth.sub_objects
        THEN Exc("KeyError")
        ELSE Val([i \in DOMAIN reln_map |->
                Role(reln_map[i][1],
                     Compact([j \in DOMAIN reln_map[i][2] |->
                                list_of_objects_player(reln_map[i][2][j])]))])

-----------------------------------------------------------------------------
(* Category dispatch and the extension unpacker with its validator.  depth *)
(* is the number of frames on the interpreter's stack in the call.         *)

RECURSIVE get_relation_details(_, _)
RECURSIVE get_extension_relations(_, _)
RECURSIVE validate_get_relns(_, _, _)
RECURSIVE return_valid_relations(_, _, _, _)

\* the first player of the owner role that is an entity of type obj_name
\* decides: the relation is unpacked; without one the call returns None
return_valid_relations(rel, obj_name, role_owner, depth) ==
    IF depth > RecursionLimit THEN Exc("RecursionError")
    ELSE LET reln_map == get_players_by_role_type(rel)
         IN  IF \E i \in DOMAIN reln_map :
                   /\ reln_map[i][1] = role_owner
                   /\ \E j \in DOMAIN reln_map[i][2] :
                        /\ is_entity(reln_map[i][2][j])
                        /\ get_label(reln_map[i][2][j]) = obj_name
             THEN LET d == get_relation_details(rel, depth + 1)
                  IN  IF IsExc(d) THEN d ELSE Val(<<d.val>>)
             ELSE Val(<<>>)

\* Val(<<>>) is None, Val(<<reln>>) a relation record
validate_owner(rel, obj_name, table, key, depth) ==
    LET role_owner == LastMatch(table, key, get_label(rel), "owner")
    IN  IF role_owner = <<>> THEN Exc("UnboundLocalError")
        ELSE return_valid_relations(rel, obj_name, role_owner[1], depth + 1)

validate_get_relns(rel, obj_name, depth) ==
    IF depth > RecursionLimit THEN Exc("RecursionError")
    ELSE LET reln_name == get_label(rel)
             details == get_relation_details(rel, depth + 1)
         IN  IF reln_name \in auth.reln_name.embedded_relations
             THEN validate_owner(rel, obj_name,
                                 auth.reln.embedded_relations, "typeql", depth)
             ELSE IF reln_name \in auth.reln_name.key_value_relations
             THEN validate_owner(rel, obj_name,
                                 auth.reln.key_value_relations, "typeql", depth)
             ELSE IF reln_name \in auth.reln_name.extension_relations
             THEN validate_owner(rel, obj_name,
                                 auth.reln.extension_relations, "relation", depth)
             ELSE IF reln_name \in auth.reln_name.list_of_objects
             THEN validate_owner(rel, obj_name,
                                 auth.reln.list_of_objects, "typeql", depth)
             ELSE IF reln_name = "granular-marking" \/ reln_name = "hashes"
             THEN IF IsExc(details) THEN details ELSE Val(<<details.val>>)
             ELSE Val(<<>>)

\* the relations of an expanded sub-object that the validator keeps
extension_relns(p, reln_object, depth) ==
    LET reln_types == get_relations(p)
        checked == Collect([k \in DOMAIN reln_types |->
                      validate_get_relns(reln_types[k], reln_object, depth + 1)])
    IN  IF IsExc(checked) THEN checked ELSE Val(Compact(checked.val))

\* the type test lost: no entity player is expanded
extension_player_reference_only(p, reln_object, depth) ==
    IF is_entity(p)
    THEN IF reln_object = <<>> THEN Exc("UnboundLocalError")
         ELSE Val(<<SetLast([type |-> "entity", tql |-> get_label(p)], "stix_id",
                            get_has_of_type(p, "stix-id"))>>)
    ELSE IF is_attribute(p)
    THEN Val(<<attribute_play(p, FALSE)>>)
    ELSE Val(<<>>)

extension_player(p, reln_object, depth) ==
    IF is_entity(p)
    THEN IF reln_object = <<>> THEN Exc("UnboundLocalError")
         ELSE LET play == [type |-> "entity", tql |-> get_label(p)]
              IN  IF get_label(p) = reln_object[1]
                  THEN LET relns == extension_relns(p, reln_object[1], depth)
                       IN  IF IsExc(relns) THEN relns
                           ELSE Val(<<("has" :> process_props(get_has(p)))
                                      @@ ("relns" :> relns.val) @@ play>>)
                  ELSE Val(<<SetLast(play, "stix_id",
                                     get_has_of_type(p, "stix-id"))>>)
    ELSE IF is_attribute(p)
    THEN Val(<<attribute_play(p, FALSE)>>)
    ELSE Val(<<>>)

extension_role(role, reln_object, depth) ==
    LET plays == Collect([j \in DOMAIN role[2] |->
                    extension_player(role[2][j], reln_object, depth)])
    IN  IF IsExc(plays) THEN plays
        ELSE Val(Role(role[1], Compact(plays.val)))

get_extension_relations(r, depth) ==
    IF depth > RecursionLimit THEN Exc("RecursionError")
    ELSE LET reln_object == LastMatch(auth.reln.extension_relations,
                                      "relation", get_label(r), "object")
             reln_map == get_players_by_role_type(r)
         IN  Collect([i \in DOMAIN reln_map |->
                        extension_role(reln_map[i], reln_object, depth)])

get_relation_details(r, depth) ==
    IF depth > RecursionLimit THEN Exc("RecursionError")
    ELSE LET reln_name == get_label(r)
             reln == [T_name |-> reln_name, T_id |-> get_iid(r)]
             with(roles) == Val(("roles" :> roles) @@ reln)
             raised(roles) == IF IsExc(roles) THEN roles ELSE with(roles.val)
         IN  IF reln_name \in auth.reln_name.embedded_relations
             THEN with(get_embedded_relations(r))
             ELSE IF reln_name \in auth.reln_name.standard_relations
                     \/ reln_name = "sighting"
             THEN with(get_standard_relations(r))
             ELSE IF reln_name \in auth.reln_name.key_value_relations
             THEN with(get_key_value_relations(r))
             ELSE IF reln_name \in auth.reln_name.extension_relations
             THEN raised(get_extension_relations(r, depth + 1))
             ELSE IF reln_name \in auth.reln_name.list_of_objects
             THEN raised(get_list_of_objects(r))
             ELSE IF reln_name = "granular-marking"
             THEN with(get_granular_marking(r))
             ELSE IF reln_name = "hashes" \/ reln_name = "file_header_hashes"
             THEN with(get_hashes(r))
             ELSE Val(reln)

process_relns(reln_types, depth) ==
    Collect([i \in DOMAIN reln_types |->
                get_relation_details(reln_types[i], depth + 1)])

\* the edges of a relation bound in the answer: only entity players are kept
edge_player(thing) == IF is_entity(thing) THEN <<process_entity(thing)>> ELSE <<>>

relation_edges(thing) ==
    LET edge_types == get_players_by_role_type(thing)
    IN  [i \in DOMAIN edge_types |->
            Role(edge_types[i][1],
                 Compact([j \in DOMAIN edge_types[i][2] |->
                            edge_player(edge_types[i][2][j])]))]

\* the relation branch lost: a bound relation adds no record
convert_binding_entities_only(key, thing, depth) ==
    LET relns == process_relns(get_relations(thing), depth + 1)
        ent == [type |-> "entity", symbol |-> key, T_id |-> get_iid(thing),
                T_name |-> get_label(thing),
                has |-> process_props(get_has(thing))]
    IN  IF is_entity(thing)
        THEN IF IsExc(relns) THEN relns
             ELSE Val(<<("relns" :> relns.val) @@ ent>>)
        ELSE Val(<<>>)

\* T_id taken from the type label instead of the internal id
convert_binding_label_as_id(key, thing, depth) ==
    LET relns == process_relns(get_relations(thing), depth + 1)
        ent == [type |-> "entity", symbol |-> key, T_id |-> get_label(thing),
                T_name |-> get_label(thing),
                has |-> process_props(get_has(thing))]
        rel == [type |-> "relationship", symbol |-> key,
                T_id |-> get_label(thing), T_name |-> get_label(thing),
                has |-> process_props(get_has(thing))]
    IN  IF is_entity(thing)
        THEN IF IsExc(relns) THEN relns
             ELSE Val(<<("relns" :> relns.val) @@ ent>>)
        ELSE IF is_relation(thing)
        THEN IF IsExc(relns) THEN relns
             ELSE Val(<<("relns" :> relns.val)
                        @@ ("edges" :> relation_edges(thing)) @@ rel>>)
        ELSE Val(<<>>)

\* one binding key -> thing of an answer row: Val(<<record>>), Val(<<>>) when
\* the thing is neither entity nor relation, or the exception raised
convert_binding(key, thing, depth) ==
    LET relns == process_relns(get_relations(thing), depth + 1)
        ent == [type |-> "entity", symbol |-> key, T_id |-> get_iid(thing),
                T_name |-> get_label(thing),
                has |-> process_props(get_has(thing))]
        rel == [type |-> "relationship", symbol |-> key,
                T_id |-> get_iid(thing), T_name |-> get_label(thing),
                has |-> process_props(get_has(thing))]
    IN  IF is_entity(thing)
        THEN IF IsExc(relns) THEN relns
             ELSE Val(<<("relns" :> relns.val) @@ ent>>)
        ELSE IF is_relation(thing)
        THEN IF IsExc(relns) THEN relns
             ELSE Val(<<("relns" :> relns.val)
                        @@ ("edges" :> relation_edges(thing)) @@ rel>>)
        ELSE Val(<<>>)

\* the bindings of all rows, in row order then binding order
RECURSIVE Bindings(_)
Bindings(answer_iterator) ==
    IF answer_iterator = <<>> THEN <<>>
    ELSE answer_iterator[1] \o Bindings(Tail(answer_iterator))

convert_ans_to_res(answer_iterator) ==
    LET b == Bindings(answer_iterator)
        recs == Collect([i \in DOMAIN b |-> convert_binding(b[i][1], b[i][2], 1)])
    IN  IF IsExc(recs) THEN recs ELSE Val(Compact(recs.val))

-----------------------------------------------------------------------------
(* The graphs and the answers the calls are made on *)

StixId(v) == Attr("stix-id", "string", v)
HashValue(v) == Attr("hash-value", "string", v)

HasE1 ==
    { <<>>,
      <<StixId(<<"i", "1">>), HashValue(<<"h", "1">>),
        Attr("name", "string", <<"a", BS, BS, "b">>)>> }

HasE2 ==
    { <<StixId(<<"i", "2">>), StixId(<<"i", "3">>)>>,
      <<HashValue(<<"h", "2">>),
        Attr("created", "datetime", [day |-> 1, minute |-> 0, utcoffset |-> 120]),
        Attr("size", "long", 7)>> }

\* the type names of r1, the relation r2 may have as a player
NamesR1 ==
    {"archive-extension", "pdf-extension", "x509-extensions", "uses", "delivers"}

PlayersR1 ==
    { << <<"owner", <<"e1">>>>, <<"pointed-to", <<"e2">>>> >>,
      << <<"owner", <<"e2">>>>, <<"pointed-to", <<"a1", "e1">>>> >>,
      << <<"pointed-to", <<"e1", "e2">>>> >> }

PlayersR2 ==
    { << <<"owner", <<"e1">>>>, <<"pointed-to", <<"r1", "e2">>>> >>,
      << <<"owner", <<"e2">>>>, <<"pointed-to", <<"e1", "a1">>>> >>,
      << <<"pointed-to", <<"e2">>>>, <<"owner", <<"a1">>>> >> }

Rows ==
    { << <<"x", "e1">>, <<"a", "a1">>, <<"r", "r1">> >>,
      << <<"y", "e2">>, <<"r", "r2">> >> }

RECURSIVE SeqsUpTo(_, _)
SeqsUpTo(S, n) ==
    IF n = 0 THEN {<<>>}
    ELSE LET shorter == SeqsUpTo(S, n - 1)
         IN  shorter \cup {Append(s, x) : s \in shorter, x \in S}

Answers == SeqsUpTo(Rows, MaxRows)

Chars == {BS, "a", "b"}
Strings == SeqsUpTo(Chars, MaxLen)

-----------------------------------------------------------------------------
(* The state machine: a graph, and one call made on it *)

Graphs ==
    /\ label \in {[e1 |-> t1, e2 |-> "file", a1 |-> "header-value",
                   r1 |-> n1, r2 |-> n2] :
                    t1 \in EntityNames, n1 \in NamesR1, n2 \in RelationNames}
    /\ has \in {[e1 |-> h1, e2 |-> h2, a1 |-> <<Attr("key", "string", <<"k">>)>>,
                 r1 |-> <<StixId(<<"i", "r">>)>>, r2 |-> <<>>] :
                    h1 \in HasE1, h2 \in HasE2}
    /\ players \in {[r1 |-> p1, r2 |-> p2] : p1 \in PlayersR1, p2 \in PlayersR2}

Init ==
    /\ Graphs
    /\ op = "none"
    /\ arg = <<>>
    /\ res = Val(<<>>)

ConvertAnsToRes ==
    \E answer_iterator \in Answers :
        /\ op = "none"
        /\ op' = "convert_ans_to_res"
        /\ arg' = answer_iterator
        /\ res' = convert_ans_to_res(answer_iterator)
        /\ UNCHANGED <<label, has, players>>

GetRelationDetails ==
    \E r \in Relations :
        /\ op = "none"
        /\ op' = "get_relation_details"
        /\ arg' = r
        /\ res' = get_relation_details(r, 1)
        /\ UNCHANGED <<label, has, players>>

Next == ConvertAnsToRes \/ GetRelationDetails

Spec == Init /\ [][Next]_vars

\* process_props on one string attribute
InitProps ==
    /\ label = [e1 |-> "file", e2 |-> "file", a1 |-> "header-value",
                r1 |-> "uses", r2 |-> "uses"]
    /\ has = [t \in Things |-> <<>>]
    /\ players = [r \in Relations |-> <<>>]
    /\ op = "none"
    /\ arg \in {<<Attr("name", "string", s)>> : s \in Strings}
    /\ res = Val(<<>>)

ProcessProps ==
    /\ op = "none"
    /\ op' = "process_props"
    /\ res' = Val(process_props(arg))
    /\ UNCHANGED <<label, has, players, arg>>

NextProps == ProcessProps

SpecProps == InitProps /\ [][NextProps]_vars

-----------------------------------------------------------------------------
(* stix/module/parsing/parse_objects.py: a dictionary to a STIX object.  A   *)
(* dictionary is a function from the keys it holds to their values.          *)

\* dict.get(key, False) taken as a condition, for a text and a bool value
truthy_text(d, key) == key \in DOMAIN d /\ d[key] # ""
truthy_bool(d, key) == key \in DOMAIN d /\ d[key]

\* dict.get(key, False) == value
get_equals(d, key, value) == key \in DOMAIN d /\ d[key] = value

\* the type name the conversion decisions give a domain object
sdo_type_to_tql(obj_type, attack_object, sub_technique) ==
    IF attack_object /\ obj_type = "attack-pattern"
    THEN IF sub_technique THEN "sub-technique" ELSE "technique"
    ELSE obj_type

\* the type name the conversion decisions give a relationship object
sro_type_to_tql(obj_type, sro_sub_rel, attack_object, uses_relation, is_procedure) ==
    IF obj_type = "sighting" THEN "sighting"
    ELSE IF attack_object THEN "attack-relation"
    ELSE sro_sub_rel

\* Val(<<>>) is None, Val(<<cls>>) the class found
class_for_type(stix_typeql, category) ==
    LET table == conv[category]
        hits == {i \in DOMAIN table : table[i].typeql = stix_typeql}
    IN  IF hits = {} THEN Val(<<>>)
        ELSE LET first == CHOOSE i \in hits : \A k \in hits : i <= k
                 conv_cls == table[first].class
             IN  IF conv_cls \in classes[category] THEN Val(<<conv_cls>>)
                 ELSE Exc("KeyError")

\* the library's parser, called with allow_custom=True on a marking definition
dict_to_stix2(stix_dict) == Val([class |-> "stix2", kwargs |-> stix_dict])

\* 'property-extension' not in ext_def.get('extension_type', '')
defines_new_object(ext) ==
    /\ ext.key_id_prefix = "extension-definition--"
    /\ ext.extension_type \notin {"property-extension",
                                  "toplevel-property-extension"}

\* obj_class(**stix_dict) after stix_dict['allow_custom'] = allow_custom
construct(obj_class, stix_dict, allow_custom) ==
    Val([class |-> obj_class,
         kwargs |-> ("allow_custom" :> allow_custom) @@ stix_dict])

\* lines 169-190: the class found, or None
dict_to_stix_class(found, stix_dict, allow_custom) ==
    IF IsExc(found) THEN found
    ELSE IF found.val = <<>>
    THEN IF allow_custom THEN Val(stix_dict)
         ELSE IF "extensions" \in DOMAIN stix_dict
                 /\ \E i \in DOMAIN stix_dict.extensions :
                        defines_new_object(stix_dict.extensions[i])
         THEN Val(stix_dict)
         ELSE Exc("ParseError")
    ELSE construct(found.val[1], stix_dict, allow_custom)

dict_to_stix(stix_dict, allow_custom) ==
    IF DOMAIN stix_dict = {} THEN Exc("AssertionError")
    ELSE IF "type" \notin DOMAIN stix_dict THEN Exc("ParseError")
    ELSE
    LET obj_type == stix_dict.type
        attack_object == truthy_text(stix_dict, "x_mitre_version")
    IN  IF obj_type \in tql_types.sdo
        THEN LET sub_technique ==
                    attack_object /\ truthy_bool(stix_dict, "x_mitre_is_subtechnique")
                 sdo_tql_name == sdo_type_to_tql(obj_type, attack_object, sub_technique)
             IN  dict_to_stix_class(class_for_type(sdo_tql_name, "sdo"),
                                    stix_dict, allow_custom)
        ELSE IF obj_type \in tql_types.sco
        THEN dict_to_stix_class(class_for_type(obj_type, "sco"),
                                stix_dict, allow_custom)
        ELSE IF obj_type \in tql_types.sro
        THEN LET uses_relation ==
                    attack_object /\ get_equals(stix_dict, "relationship_type", "uses")
                 is_procedure ==
                    attack_object /\ get_equals(stix_dict, "target_ref", "attack-pattern")
                 sro_sub_rel ==
                    IF truthy_text(stix_dict, "relationship_type")
                    THEN stix_dict.relationship_type ELSE ""
                 sro_tql_name == sro_type_to_tql(obj_type, sro_sub_rel, attack_object,
                                                 uses_relation, is_procedure)
                 obj_tql_name ==
                    IF sro_tql_name = "attack-relation" THEN <<sro_tql_name>>
                    ELSE IF obj_type = "relationship" THEN <<"stix-core-relationship">>
                    ELSE IF obj_type = "sighting" THEN <<"sighting">>
                    ELSE <<>>
             IN  IF obj_tql_name = <<>> THEN Exc("UnboundLocalError")
                 ELSE dict_to_stix_class(class_for_type(obj_tql_name[1], "sro"),
                                         stix_dict, allow_custom)
        ELSE IF obj_type \in tql_types.sub
        THEN dict_to_stix_class(class_for_type(obj_type, "sub"),
                                stix_dict, allow_custom)
        ELSE IF obj_type \in tql_types.meta
        THEN IF attack_object
             THEN dict_to_stix_class(class_for_type("attack-marking", "meta"),
                                     stix_dict, allow_custom)
             ELSE dict_to_stix2(stix_dict)
        ELSE IF allow_custom
        THEN Exc("ParseError")
        ELSE Exc("ParseError")

\* type(data) is dict: the data is the dictionary
_get_dict(data) == data

parse(data, allow_custom) == dict_to_stix(_get_dict(data), allow_custom)

\* a key the dictionary holds, or none when the value is the empty sequence
Key(key, v) == IF v = <<>> THEN <<>> ELSE key :> v[1]

TypeNames ==
    {"identity", "attack-pattern", "campaign", "file", "process",
     "relationship", "sighting", "email-mime-part", "marking-definition",
     "x-acme-widget"}

Extensions ==
    { << [key_id_prefix |-> "extension-definition--",
          extension_type |-> "new-sdo"] >>,
      << [key_id_prefix |-> "extension-definition--",
          extension_type |-> "property-extension"] >> }

\* the dictionaries handed to the parser
StixDicts ==
    { Key("type", t) @@ Key("x_mitre_version", v)
      @@ Key("x_mitre_is_subtechnique", st) @@ Key("relationship_type", rt)
      @@ Key("extensions", e) :
        t \in {<<>>} \cup {<<n>> : n \in TypeNames},
        v \in {<<>>, <<"1.0">>},
        st \in {<<>>, <<TRUE>>},
        rt \in {<<>>, <<"uses">>},
        e \in {<<>>} \cup {<<x>> : x \in Extensions} }

InitParse ==
    /\ label = [e1 |-> "file", e2 |-> "file", a1 |-> "header-value",
                r1 |-> "uses", r2 |-> "uses"]
    /\ has = [t \in Things |-> <<>>]
    /\ players = [r \in Relations |-> <<>>]
    /\ op = "none"
    /\ arg \in StixDicts \X BOOLEAN
    /\ res = Val(<<>>)

DictToStix ==
    /\ op = "none"
    /\ op' = "dict_to_stix"
    /\ res' = dict_to_stix(arg[1], arg[2])
    /\ UNCHANGED <<label, has, players, arg>>

Parse ==
    /\ op = "none"
    /\ op' = "parse"
    /\ res' = parse(arg[1], arg[2])
    /\ UNCHANGED <<label, has, players, arg>>

NextParse == DictToStix \/ Parse

SpecParse == InitParse /\ [][NextParse]_vars

-----------------------------------------------------------------------------
(* Vocabulary of the properties *)

Called(f) == op = f
Returned(f) == op = f /\ ~IsExc(res)

Kind(p) ==
    IF p \in Entities THEN "entity"
    ELSE IF p \in Relations THEN "relation"
    ELSE "attribute"

\* the players of the given kinds, in the order the graph returns them
OfKinds(s, kinds) == SelectSeq(s, LAMBDA p : Kind(p) \in kinds)

ThingOfIid(id) == CHOOSE t \in Things : get_iid(t) = id

InEmbedded(n) == n \in auth.reln_name.embedded_relations
InStandard(n) == n \in auth.reln_name.standard_relations \/ n = "sighting"
InKeyValue(n) == n \in auth.reln_name.key_value_relations
InExtension(n) == n \in auth.reln_name.extension_relations
InListOfObjects(n) == n \in auth.reln_name.list_of_objects
IsHashes(n) == n \in {"hashes", "file_header_hashes"}

\* the relation type is in no category set and is none of the literal names
Unresolvable(n) ==
    ~(InEmbedded(n) \/ InStandard(n) \/ InKeyValue(n) \/ InExtension(n)
      \/ InListOfObjects(n) \/ n = "granular-marking" \/ IsHashes(n))

\* the relation is unpacked by the extension / list-of-objects / hashes handler
ExtensionCase(n) ==
    InExtension(n) /\ ~InEmbedded(n) /\ ~InStandard(n) /\ ~InKeyValue(n)
ListOfObjectsCase(n) == InListOfObjects(n) /\ ~InEmbedded(n) /\ ~InStandard(n)
                        /\ ~InKeyValue(n) /\ ~InExtension(n)
HashesCase(n) == IsHashes(n) /\ ~InEmbedded(n) /\ ~InStandard(n)
                 /\ ~InKeyValue(n) /\ ~InExtension(n) /\ ~InListOfObjects(n)

\* an entity of type t fills the role named owner of relation r
OwnedBy(r, owner, t) ==
    \E i \in DOMAIN players[r] :
        /\ players[r][i][1] = owner
        /\ \E j \in DOMAIN players[r][i][2] :
              players[r][i][2][j] \in Entities /\ label[players[r][i][2][j]] = t

Owns(thing, l) == \E k \in DOMAIN has[thing] : has[thing][k].label = l

\* the bindings of an answer whose thing is an entity or a relation
RECURSIVE KeptOfRow(_)
KeptOfRow(row) ==
    IF row = <<>> THEN <<>>
    ELSE (IF row[1][2] \in Entities \cup Relations THEN <<row[1]>> ELSE <<>>)
         \o KeptOfRow(Tail(row))

RECURSIVE Kept(_)
Kept(rows) == IF rows = <<>> THEN <<>> ELSE KeptOfRow(rows[1]) \o Kept(Tail(rows))

RECURSIVE Flat(_)
Flat(ss) == IF ss = <<>> THEN <<>> ELSE ss[1] \o Flat(Tail(ss))

\* the T_id of a relation record and of every record nested under its players
RECURSIVE RelnTids(_)
RelnTids(n) ==
    <<n.T_id>>
    \o (IF "roles" \in DOMAIN n
        THEN Flat([i \in DOMAIN n.roles |->
                Flat([j \in DOMAIN n.roles[i].player |->
                    IF "relns" \in DOMAIN n.roles[i].player[j]
                    THEN Flat([k \in DOMAIN n.roles[i].player[j].relns |->
                                 RelnTids(n.roles[i].player[j].relns[k])])
                    ELSE <<>>])])
        ELSE <<>>)

\* the T_id of every record of the tree convert_ans_to_res returned
TreeTids(recs) ==
    Flat([i \in DOMAIN recs |->
            <<recs[i].T_id>>
            \o Flat([k \in DOMAIN recs[i].relns |-> RelnTids(recs[i].relns[k])])])

HasPair(s) == \E i \in 1..(Len(s) - 1) : s[i] = BS /\ s[i + 1] = BS
HasTriple(s) ==
    \E i \in 1..(Len(s) - 2) : s[i] = BS /\ s[i + 1] = BS /\ s[i + 2] = BS

-----------------------------------------------------------------------------
(* C1 *)

\* C1: a relation whose type name is in the standard-relations set, or is
\* 'sighting', and is not in the embedded set, is returned by
\* get_relation_details with a 'roles' list that is empty, whatever its players.
C1_StandardRolesEmpty ==
    (Called("get_relation_details")
     /\ InStandard(label[arg]) /\ ~InEmbedded(label[arg]))
    => /\ ~IsExc(res)
       /\ "roles" \in DOMAIN res.val
       /\ res.val.roles = <<>>

C1_Witness ==
    /\ Returned("get_relation_details")
    /\ label[arg] = "sighting"
    /\ players[arg][1][2] # <<>>
    /\ res.val.roles = <<>>

(* C2 *)

\* C2: for an extension relation whose owner-role player's type matches the
\* configured sub-object type, get_extension_relations returns; every entity
\* player of that type carries a non-empty 'has' and a 'relns' list, every
\* entity player of another type carries 'stix_id' and no 'has'.
C2_ExtensionOwnerExpanded ==
    Called("get_relation_details") /\ ExtensionCase(label[arg])
    => \A e \in DOMAIN auth.reln.extension_relations :
          LET ext == auth.reln.extension_relations[e]
          IN  (ext.relation = label[arg] /\ OwnedBy(arg, ext.owner, ext.object))
              => /\ ~IsExc(res)
                 /\ \A i \in DOMAIN res.val.roles :
                      \A j \in DOMAIN res.val.roles[i].player :
                          LET play == res.val.roles[i].player[j]
                          IN  play.type = "entity" =>
                                IF play.tql = ext.object
                                THEN /\ "has" \in DOMAIN play
                                     /\ play.has # <<>>
                                     /\ "relns" \in DOMAIN play
                                ELSE /\ "stix_id" \in DOMAIN play
                                     /\ "has" \notin DOMAIN play

(* C3 *)

\* C3 (the owner role of every configured relation type is 'owner', the
\* sub-object type of the list-of-objects relation 'archive-ext'):
\* get_list_of_objects expands every entity player of every role (has and
\* relns), and the relns of an expanded player hold no nested relation whose
\* owner role is not filled by an entity of the configured sub-object type.
C3_ListOfObjectsValidated ==
    (Called("get_relation_details") /\ ListOfObjectsCase(label[arg]))
    => /\ ~IsExc(res)
       /\ \A i \in DOMAIN res.val.roles :
            LET ents == OfKinds(players[arg][i][2], {"entity"})
                plays == res.val.roles[i].player
            IN  /\ Len(plays) = Len(ents)
                /\ \A j \in DOMAIN plays :
                     /\ "has" \in DOMAIN plays[j]
                     /\ "relns" \in DOMAIN plays[j]
                     /\ \A k \in DOMAIN plays[j].relns :
                          OwnedBy(ThingOfIid(plays[j].relns[k].T_id), "owner",
                                  "archive-ext")

(* C4 *)

\* C4 as claimed: in get_hashes' output every entity player under 'owner'
\* carries 'stix_id' and never 'hash_value', every entity player under another
\* role carries 'hash_value' and never 'stix_id'.
C4_HashesFieldsAlways ==
    (Returned("get_relation_details") /\ HashesCase(label[arg]))
    => \A i \in DOMAIN res.val.roles :
          \A j \in DOMAIN res.val.roles[i].player :
              LET play == res.val.roles[i].player[j]
              IN  IF res.val.roles[i].role = "owner"
                  THEN "stix_id" \in DOMAIN play /\ "hash_value" \notin DOMAIN play
                  ELSE "hash_value" \in DOMAIN play /\ "stix_id" \notin DOMAIN play

\* C4 amended: the players kept are the entity players, in order; one under
\* 'owner' never carries 'hash_value' and carries 'stix_id' exactly when the
\* entity owns a stix-id attribute; one under another role never carries
\* 'stix_id' and carries 'hash_value' exactly when the entity owns a
\* hash-value attribute.
C4_HashesFields ==
    (Called("get_relation_details") /\ HashesCase(label[arg]))
    => /\ ~IsExc(res)
       /\ Len(res.val.roles) = Len(players[arg])
       /\ \A i \in DOMAIN res.val.roles :
            LET ents == OfKinds(players[arg][i][2], {"entity"})
                plays == res.val.roles[i].player
            IN  /\ res.val.roles[i].role = players[arg][i][1]
                /\ Len(plays) = Len(ents)
                /\ \A j \in DOMAIN plays :
                     IF res.val.roles[i].role = "owner"
                     THEN /\ "hash_value" \notin DOMAIN plays[j]
                          /\ ("stix_id" \in DOMAIN plays[j]
                                <=> Owns(ents[j], "stix-id"))
                     ELSE /\ "stix_id" \notin DOMAIN plays[j]
                          /\ ("hash_value" \in DOMAIN plays[j]
                                <=> Owns(ents[j], "hash-value"))

C4_Witness ==
    /\ Returned("get_relation_details")
    /\ HashesCase(label[arg])
    /\ \E i, k \in DOMAIN res.val.roles :
          /\ res.val.roles[i].role = "owner"
          /\ res.val.roles[k].role # "owner"
          /\ \E j \in DOMAIN res.val.roles[i].player :
                "stix_id" \in DOMAIN res.val.roles[i].player[j]
                /\ Owns(OfKinds(players[arg][i][2], {"entity"})[j], "hash-value")
          /\ \E j \in DOMAIN res.val.roles[k].player :
                "hash_value" \in DOMAIN res.val.roles[k].player[j]

(* C5 *)

\* C5 as claimed: for every string attribute value, collapsing the decoded
\* value again leaves it unchanged, and the decoded value holds no adjacent
\* pair of backslashes.
C5_DecodeIdempotentAlways ==
    Called("process_props")
    => /\ str_replace(res.val[1].value) = res.val[1].value
       /\ ~HasPair(res.val[1].value)

\* C5 amended: the decoded value is a fixed point of the collapse and free of
\* adjacent backslash pairs exactly when the value held no three adjacent
\* backslashes.
C5_DecodeIdempotent ==
    Called("process_props")
    => /\ res.val[1].typeql = arg[1].label
       /\ res.val[1].datetime = FALSE
       /\ (str_replace(res.val[1].value) = res.val[1].value
           <=> ~HasTriple(arg[1].value))
       /\ (~HasPair(res.val[1].value) <=> ~HasTriple(arg[1].value))

C5_Witness ==
    /\ Called("process_props")
    /\ HasPair(arg[1].value)
    /\ ~HasTriple(arg[1].value)
    /\ res.val[1].value # arg[1].value
    /\ str_replace(res.val[1].value) = res.val[1].value

(* C6 *)

\* C6: convert_ans_to_res never raises: whatever the rows bind and whatever
\* the relations' type names and players, it returns a list of records.
C6_NeverRaises == Called("convert_ans_to_res") => ~IsExc(res)

(* C7 *)

\* C7: a relation whose type name is in no category set is dropped: the
\* 'relns' list of the record of a thing that takes part in it holds no
\* record for it.
C7_UnresolvableDropped ==
    Returned("convert_ans_to_res")
    => \A i \in DOMAIN res.val :
          \A k \in DOMAIN res.val[i].relns :
              ~Unresolvable(res.val[i].relns[k].T_name)

(* C8 *)

\* C8: the list convert_ans_to_res returns holds exactly one record per bound
\* element that is an entity or a relation, in row order then binding order,
\* with 'symbol' the binding name and 'type' 'entity' or 'relationship'; an
\* element that is neither adds no record and does not end the decoding.
C8_OneRecordPerBinding ==
    Returned("convert_ans_to_res")
    => LET kept == Kept(arg)
       IN  /\ Len(res.val) = Len(kept)
           /\ \A i \in DOMAIN kept :
                /\ res.val[i].symbol = kept[i][1]
                /\ res.val[i].type = (IF kept[i][2] \in Entities THEN "entity"
                                      ELSE "relationship")

C8_Witness ==
    /\ Returned("convert_ans_to_res")
    /\ Len(arg) = 2
    /\ \E j \in DOMAIN arg[1] : arg[1][j][2] \in Attributes
    /\ Len(Kept(arg)) < Len(Flat(arg))
    /\ Len(res.val) = 4
    /\ res.val[2].type = "relationship"
    /\ res.val[3].type = "entity"

(* C9 *)

\* C9 as claimed: no two records of the tree one convert_ans_to_res call
\* returns share a T_id.
C9_TidsDistinct ==
    Returned("convert_ans_to_res")
    => LET tids == TreeTids(res.val)
       IN  \A i, j \in DOMAIN tids : i # j => tids[i] # tids[j]

\* C9 amended: a record's T_id is the internal id of the graph element it
\* describes (the element bound there, or the relation unpacked there), so two
\* top-level records share a T_id exactly when they describe the same element.
C9_TidIsElementIid ==
    Returned("convert_ans_to_res")
    => LET kept == Kept(arg)
       IN  /\ Len(res.val) = Len(kept)
           /\ \A i \in DOMAIN kept :
                /\ res.val[i].T_id = get_iid(kept[i][2])
                /\ Len(res.val[i].relns) = Len(get_relations(kept[i][2]))
                /\ \A k \in DOMAIN res.val[i].relns :
                     res.val[i].relns[k].T_id
                        = get_iid(get_relations(kept[i][2])[k])
           /\ \A i, j \in DOMAIN kept :
                res.val[i].T_id = res.val[j].T_id <=> kept[i][2] = kept[j][2]

C9_Witness ==
    /\ Returned("convert_ans_to_res")
    /\ \E i, j \in DOMAIN res.val :
          /\ i # j
          /\ res.val[i].T_id = res.val[j].T_id
          /\ res.val[i].symbol = res.val[j].symbol
    /\ \E i, j \in DOMAIN res.val :
          /\ res.val[i].T_id # res.val[j].T_id
          /\ \E k \in DOMAIN res.val[i].relns, m \in DOMAIN res.val[j].relns :
                res.val[i].relns[k].T_id = res.val[j].relns[m].T_id

(* C10 *)

\* the kinds of player the handler of a relation type keeps
KeptKinds(n) ==
    IF InEmbedded(n) THEN {"entity", "relation"}
    ELSE IF InKeyValue(n) \/ InExtension(n) \/ n = "granular-marking"
    THEN {"entity", "attribute"}
    ELSE {"entity"}

\* roles are the graph's roles of r in order, and each player list has one
\* record per graph player of the given kinds, in order, with its type name
RolesReflect(roles, r, kinds) ==
    /\ Len(roles) = Len(players[r])
    /\ \A i \in DOMAIN roles :
         LET from == OfKinds(players[r][i][2], kinds)
         IN  /\ roles[i].role = players[r][i][1]
             /\ Len(roles[i].player) = Len(from)
             /\ \A j \in DOMAIN from : roles[i].player[j].tql = label[from[j]]

\* C10 as claimed: every role binding's player list matches the players the
\* graph returns for that role one to one, in order.
C10_PlayersOneToOne ==
    /\ (Returned("get_relation_details") /\ "roles" \in DOMAIN res.val
        /\ ~(InStandard(label[arg]) /\ ~InEmbedded(label[arg])))
       => RolesReflect(res.val.roles, arg, {"entity", "relation", "attribute"})
    /\ Returned("convert_ans_to_res")
       => \A i \in DOMAIN res.val :
             res.val[i].type = "relationship"
             => RolesReflect(res.val[i].edges, ThingOfIid(res.val[i].T_id),
                             {"entity", "relation", "attribute"})

\* C10 amended: every role binding's player list matches, one to one and in
\* order, the graph's players of that role that are of a kind the unpacker
\* keeps: entities for edges, list-of-objects and hashes; entities and
\* relations for embedded; entities and attributes for key-value, extension
\* and granular-marking.  No player is invented; players of other kinds are
\* skipped.
C10_PlayersOfKeptKinds ==
    /\ (Returned("get_relation_details")
        /\ ~Unresolvable(label[arg])
        /\ ~(InStandard(label[arg]) /\ ~InEmbedded(label[arg])))
       => /\ "roles" \in DOMAIN res.val
          /\ RolesReflect(res.val.roles, arg, KeptKinds(label[arg]))
    /\ Returned("convert_ans_to_res")
       => \A i \in DOMAIN res.val :
             res.val[i].type = "relationship"
             => /\ "edges" \in DOMAIN res.val[i]
                /\ RolesReflect(res.val[i].edges, ThingOfIid(res.val[i].T_id),
                                {"entity"})

C10_Witness ==
    /\ Returned("get_relation_details")
    /\ InKeyValue(label[arg]) /\ ~InEmbedded(label[arg]) /\ ~InStandard(label[arg])
    /\ \E i \in DOMAIN players[arg] :
          /\ Len(players[arg][i][2]) = 2
          /\ players[arg][i][2][1] \in Relations
          /\ Len(res.val.roles[i].player) = 1
          /\ res.val.roles[i].player[1].tql = label[players[arg][i][2][2]]
    /\ \E i \in DOMAIN players[arg] :
          Len(res.val.roles[i].player) = Len(players[arg][i][2])

(* C11 *)

\* the type is in none of the sdo/sco/sro/sub/meta type sets
InNoTypeSet(t) == \A c \in DOMAIN tql_types : t \notin tql_types[c]

\* the type is in a set for which class_for_type is asked, and finds no class
NoClassFor(d) ==
    LET attack == truthy_text(d, "x_mitre_version")
        found ==
            IF d.type \in tql_types.sdo
            THEN class_for_type(
                    sdo_type_to_tql(d.type, attack,
                        attack /\ truthy_bool(d, "x_mitre_is_subtechnique")), "sdo")
            ELSE IF d.type \in tql_types.sco THEN class_for_type(d.type, "sco")
            ELSE IF d.type \in tql_types.sub THEN class_for_type(d.type, "sub")
            ELSE Val(<<"other">>)
    IN  found = Val(<<>>)

\* C11: with allow_custom=True, dict_to_stix and parse return the supplied
\* dictionary as is, and do not raise, whenever its 'type' maps to no known
\* STIX object type: the type is in none of the type sets, or it is in a set
\* and class_for_type finds no class for it.
C11_UnknownReturnedAsIs ==
    ((Called("dict_to_stix") \/ Called("parse"))
     /\ arg[2] /\ "type" \in DOMAIN arg[1]
     /\ (InNoTypeSet(arg[1].type) \/ NoClassFor(arg[1])))
    => res = Val(arg[1])

(* C12 *)

\* the record is the recursive RelationRecord of the relation q: its type
\* name, its internal id, and the roles its own category resolves to
IsRelationRecord(play, q) ==
    /\ {"T_name", "T_id", "roles"} \subseteq DOMAIN play
    /\ play.T_name = label[q]
    /\ play.T_id = get_iid(q)
    /\ get_relation_details(q, 1) = Val([T_name |-> play.T_name,
                                         T_id |-> play.T_id,
                                         roles |-> play.roles])

\* the record is the EntityReference of the entity q
IsEntityReference(play, q) ==
    /\ play.type = "entity"
    /\ play.tql = label[q]
    /\ "stix_id" \in DOMAIN play
       => \E k \in DOMAIN has[q] :
             has[q][k].label = "stix-id" /\ has[q][k].value = play.stix_id

\* C12: in the embedded category every entity player of every role becomes an
\* EntityReference (type 'entity', type name, external id) and every relation
\* player a recursive RelationRecord: the relation's type name and internal id
\* with the 'roles' get_relation_details gives that relation.
C12_EmbeddedRelationPlayersRecursive ==
    (Called("get_relation_details") /\ InEmbedded(label[arg]))
    => /\ ~IsExc(res)
       /\ Len(res.val.roles) = Len(players[arg])
       /\ \A i \in DOMAIN res.val.roles :
            LET from == OfKinds(players[arg][i][2], {"entity", "relation"})
                plays == res.val.roles[i].player
            IN  /\ Len(plays) = Len(from)
                /\ \A j \in DOMAIN plays :
                     IF from[j] \in Entities
                     THEN IsEntityReference(plays[j], from[j])
                     ELSE IsRelationRecord(plays[j], from[j])

(* C13 *)

\* get_relation_details resolves the relation type to granular-marking or hashes
MarkingOrHashesCase(n) ==
    (n = "granular-marking" \/ IsHashes(n))
    /\ ~InEmbedded(n) /\ ~InStandard(n) /\ ~InKeyValue(n) /\ ~InExtension(n)
    /\ ~InListOfObjects(n)

\* the records of relation q in a 'relns' list
RecordsOf(relns, q) == {k \in DOMAIN relns : relns[k].T_id = get_iid(q)}

\* P(play, p) holds of every sub-object the extension unpacker expanded in the
\* returned roles: play is the record, p the entity player it was made from
ForExpanded(P(_, _)) ==
    \A i \in DOMAIN res.val.roles :
        LET from == OfKinds(players[arg][i][2], {"entity", "attribute"})
        IN  \A j \in DOMAIN res.val.roles[i].player :
                "relns" \in DOMAIN res.val.roles[i].player[j]
                => P(res.val.roles[i].player[j], from[j])

\* C13: when the extension unpacker expands a sub-object, every relation of
\* the sub-object that resolves to the granular-marking or hashes category
\* ('granular-marking', 'hashes', 'file_header_hashes') has its record in the
\* sub-object's 'relns', whoever fills its owner role.
C13_MarkingAndHashesAlwaysKept ==
    (Returned("get_relation_details") /\ ExtensionCase(label[arg]))
    => ForExpanded(LAMBDA play, p :
          \A k \in DOMAIN get_relations(p) :
              LET q == get_relations(p)[k]
              IN  MarkingOrHashesCase(label[q]) => RecordsOf(play.relns, q) # {})

(* C14 *)

\* the categories whose nested relations the validator filters by owner
OwnerFiltered(n) ==
    InEmbedded(n) \/ InKeyValue(n) \/ InExtension(n) \/ InListOfObjects(n)

\* the owner role the table configures for the relation type, <<>> without one
OwnerRoleOf(n) ==
    IF InEmbedded(n)
    THEN LastMatch(auth.reln.embedded_relations, "typeql", n, "owner")
    ELSE IF InKeyValue(n)
    THEN LastMatch(auth.reln.key_value_relations, "typeql", n, "owner")
    ELSE IF InExtension(n)
    THEN LastMatch(auth.reln.extension_relations, "relation", n, "owner")
    ELSE LastMatch(auth.reln.list_of_objects, "typeql", n, "owner")

\* every owner-filtered relation type of the graph has its owner role configured
OwnersConfigured ==
    \A r \in Relations : OwnerFiltered(label[r]) => OwnerRoleOf(label[r]) # <<>>

\* C14 (on graphs whose owner-filtered relation types all have an owner role
\* configured): get_extension_relations returns, and in every sub-object of
\* type T it expanded, a relation of the sub-object whose category is
\* embedded, key-value, extension or list-of-objects has its record in 'relns'
\* if and only if an entity of type T fills the relation's owner role.
C14_NestedKeptIffOwnedBySubObject ==
    (Called("get_relation_details") /\ ExtensionCase(label[arg])
     /\ OwnersConfigured)
    => /\ ~IsExc(res)
       /\ ForExpanded(LAMBDA play, p :
            \A k \in DOMAIN get_relations(p) :
                LET q == get_relations(p)[k]
                IN  OwnerFiltered(label[q])
                    => (RecordsOf(play.relns, q) # {}
                        <=> OwnedBy(q, OwnerRoleOf(label[q])[1], play.tql)))

(* C15 *)

\* q is a role player of r, directly or through relations that are players
RECURSIVE NestedIn(_, _, _)
NestedIn(q, r, n) ==
    /\ n > 0
    /\ \E i \in DOMAIN players[r] :
          \E j \in DOMAIN players[r][i][2] :
              LET p == players[r][i][2][j]
              IN  p = q \/ (p \in Relations /\ NestedIn(q, p, n - 1))

\* no relation is a role player of itself, directly or through other relations
AcyclicNesting == \A r \in Relations : ~NestedIn(r, r, Cardinality(Relations))

\* C15: on a graph whose relation nesting is acyclic convert_ans_to_res
\* terminates: the traversal does not recurse without end, also when the
\* sub-object an extension relation expands lists that very relation among
\* its own relations.
C15_TerminatesOnAcyclicNesting ==
    (Called("convert_ans_to_res") /\ AcyclicNesting)
    => res # Exc("RecursionError")

(* C16 *)

\* the sub-object type the table configures for the extension relation type
ObjectOf(n) == LastMatch(auth.reln.extension_relations, "relation", n, "object")

\* P(play, p, role) holds of every player record of the returned roles: play
\* is the record, p the entity or attribute it was made from, role its role
ForPlayers(P(_, _, _)) ==
    /\ Len(res.val.roles) = Len(players[arg])
    /\ \A i \in DOMAIN res.val.roles :
         LET from == OfKinds(players[arg][i][2], {"entity", "attribute"})
         IN  /\ Len(res.val.roles[i].player) = Len(from)
             /\ \A j \in DOMAIN from :
                  P(res.val.roles[i].player[j], from[j], players[arg][i][1])

Expanded(play) == "has" \in DOMAIN play \/ "relns" \in DOMAIN play

\* an AttributePlayer without 'props'
IsBareAttributePlayer(play, p) ==
    /\ DOMAIN play = {"type", "tql", "value"}
    /\ play.type = "attribute"
    /\ play.tql = label[p]

====
